---- MODULE Spec2Model ----
(***************************************************************************)
(* Model of fal_ai_mcp_server.py: the four FalAIImageEditor client         *)
(* functions, the protocol front-end (handle_call_tool) and the HTTP       *)
(* front-end (the four POST routes of create_http_app).                    *)
(*                                                                         *)
(* One request is in flight at a time.  A handler runs from the arrival of *)
(* its request to its return, or to the await on client.post; the vendor's *)
(* answer then resumes it.  Python values are tagged records; a float is   *)
(* kept in tenths (Float(8) is 0.8).  A Python expression that may raise   *)
(* evaluates to Ok(v) or Err(msg), msg being str(e).                       *)
(***************************************************************************)
EXTENDS Integers, Sequences, FiniteSets, TLC

VARIABLES
    pc,         \* "idle", "awaiting" (the handler awaits client.post) or "done"
    frontend,   \* "mcp" or "http": the front-end serving the request
    req,        \* the request: name and arguments, or route and body
    call,       \* the client function being awaited, with its arguments
    sent,       \* the client.post calls made for the request
    vendor,     \* what client.post produced
    results,    \* the dicts the client function returned
    raised,     \* the exceptions raised in the handler, caught or not
    escaped,    \* an exception left the handler
    responses   \* the responses returned for the request

vars ==
    <<pc, frontend, req, call, sent, vendor, results, raised, escaped, responses>>

----------------------------------------------------------------------------
(* Python / JSON values *)

Null == [t |-> "null", s |-> "", n |-> 0]
Str(s) == [t |-> "str", s |-> s, n |-> 0]
Integer(n) == [t |-> "int", s |-> "", n |-> n]
Float(tenths) == [t |-> "float", s |-> "", n |-> tenths]
Dict(m) == [t |-> "dict", m |-> m]
List(items) == [t |-> "list", items |-> items]

EmptyMap == [k \in {} |-> Null]

Ok(v) == [ok |-> TRUE, v |-> v]
Err(msg) == [ok |-> FALSE, exc |-> msg]

\* bool(v): None, "", 0, 0.0, {} and [] are falsy
Truthy(v) ==
    CASE v.t = "null" -> FALSE
      [] v.t = "str" -> v.s # ""
      [] v.t = "int" -> v.n # 0
      [] v.t = "float" -> v.n # 0
      [] v.t = "dict" -> DOMAIN v.m # {}
      [] v.t = "list" -> Len(v.items) > 0

TypeName(v) ==
    CASE v.t = "null" -> "NoneType"
      [] v.t = "str" -> "str"
      [] v.t = "int" -> "int"
      [] v.t = "float" -> "float"
      [] v.t = "dict" -> "dict"
      [] v.t = "list" -> "list"

\* str(v), as an f-string renders a value
PyStr(v) ==
    CASE v.t = "null" -> "None"
      [] v.t = "str" -> v.s
      [] v.t = "int" -> ToString(v.n)
      [] v.t = "float" -> ToString(v.n \div 10) \o "." \o ToString(v.n % 10)
      [] v.t = "dict" -> "{...}"
      [] v.t = "list" -> "[...]"

\* d.get(k, default) on a dict; any other receiver has no attribute get
get(d, k, default) ==
    IF d.t # "dict"
    THEN Err("'" \o TypeName(d) \o "' object has no attribute 'get'")
    ELSE Ok(IF k \in DOMAIN d.m THEN d.m[k] ELSE default)

\* v[key]
GetItem(v, key) ==
    CASE v.t = "dict" ->
           IF key.t = "str" /\ key.s \in DOMAIN v.m
           THEN Ok(v.m[key.s])
           ELSE Err(IF key.t = "str" THEN "'" \o key.s \o "'" ELSE PyStr(key))
      [] v.t = "list" ->
           IF key.t # "int"
           THEN Err("list indices must be integers or slices, not " \o TypeName(key))
           ELSE IF key.n >= 0 /\ key.n < Len(v.items)
                THEN Ok(v.items[key.n + 1])
                ELSE Err("list index out of range")
      [] v.t = "str" ->
           IF key.t # "int"
           THEN Err("string indices must be integers, not '" \o TypeName(key) \o "'")
           ELSE IF key.n >= 0 /\ key.n < Len(v.s)
                THEN Ok(Str(SubSeq(v.s, key.n + 1, key.n + 1)))
                ELSE Err("string index out of range")
      [] OTHER -> Err("'" \o TypeName(v) \o "' object is not subscriptable")

\* float(v)
pyfloat(v) ==
    CASE v.t = "float" -> Ok(v)
      [] v.t = "int" -> Ok(Float(10 * v.n))
      [] v.t = "str" ->
           IF v.s = "0.5" THEN Ok(Float(5))
           ELSE IF v.s = "4" THEN Ok(Float(40))
           ELSE Err("could not convert string to float: '" \o v.s \o "'")
      [] OTHER -> Err("float() argument must be a string or a real number, not '"
                      \o TypeName(v) \o "'")

\* int(v): a float is truncated toward zero
pyint(v) ==
    CASE v.t = "int" -> Ok(v)
      [] v.t = "float" ->
           Ok(Integer(IF v.n >= 0 THEN v.n \div 10 ELSE -((-v.n) \div 10)))
      [] v.t = "str" ->
           IF v.s = "4" THEN Ok(Integer(4))
           ELSE Err("invalid literal for int() with base 10: '" \o v.s \o "'")
      [] OTHER -> Err("int() argument must be a string, a bytes-like object or a real number, not '"
                      \o TypeName(v) \o "'")

----------------------------------------------------------------------------
(* The vendor: what client.post can produce *)

UrlA == "https://cdn.fal/a.png"
UrlB == "https://cdn.fal/b.png"

T_flux == "{\"images\":[{\"url\":\"https://cdn.fal/a.png\"}]}"
T_image == "{\"image\":{\"url\":\"https://cdn.fal/b.png\"}}"
T_both == "{\"images\":[{\"url\":\"https://cdn.fal/a.png\"}],\"image\":{\"url\":\"https://cdn.fal/b.png\"}}"
T_empty == "{}"
T_noimages == "{\"images\":[],\"image\":null}"
T_html == "<html>Bad Gateway</html>"
T_blank == ""

VendorTexts == {T_flux, T_image, T_both, T_empty, T_noimages, T_html, T_blank}

VendorStatuses == {200, 201, 404, 500}

TransportErrors == {"All connection attempts failed", ""}

Raised(msg) == [kind |-> "exception", msg |-> msg, status_code |-> 0, text |-> ""]
Response(status_code, text) ==
    [kind |-> "response", msg |-> "", status_code |-> status_code, text |-> text]

NoOutcome == [kind |-> "none", msg |-> "", status_code |-> 0, text |-> ""]

VendorOutcomes ==
    {Raised(m) : m \in TransportErrors}
        \cup {Response(c, x) : c \in VendorStatuses, x \in VendorTexts}

ImagesA == List(<<Dict([url |-> Str(UrlA)])>>)
ImageB == Dict([url |-> Str(UrlB)])

\* response.json(): the body parsed, or json.JSONDecodeError
response_json(text) ==
    CASE text = T_flux -> Ok(Dict([images |-> ImagesA]))
      [] text = T_image -> Ok(Dict([image |-> ImageB]))
      [] text = T_both -> Ok(Dict([images |-> ImagesA, image |-> ImageB]))
      [] text = T_empty -> Ok(Dict(EmptyMap))
      [] text = T_noimages -> Ok(Dict([images |-> List(<<>>), image |-> Null]))
      [] OTHER -> Err("Expecting value: line 1 column 1 (char 0)")

----------------------------------------------------------------------------
(* FalAIImageEditor *)

api_key == "FAL_KEY"
base_url == "https://queue.fal.run"

headers ==
    [Authorization |-> "Key " \o api_key, ContentType |-> "application/json"]

Post(path, payload) ==
    [url |-> base_url \o path, json |-> payload, headers |-> headers]

Success(image_url, model, prompt) ==
    [success |-> TRUE, image_url |-> image_url, model |-> model,
     prompt |-> prompt, error |-> ""]
Failure(error) ==
    [success |-> FALSE, image_url |-> Null, model |-> "", prompt |-> Null,
     error |-> error]

\* how a call of a client function ends: with a value, or with an exception
Returned(value) == [raised |-> FALSE, value |-> value, exc |-> ""]
Propagated(msg) == [raised |-> TRUE, value |-> Failure(""), exc |-> msg]

\* result["images"][0]["url"]
images_0_url(result) ==
    LET a == GetItem(result, Str("images")) IN
    IF ~a.ok THEN a
    ELSE LET b == GetItem(a.v, Integer(0)) IN
         IF ~b.ok THEN b ELSE GetItem(b.v, Str("url"))

\* result["image"]["url"]
image_url_of(result) ==
    LET a == GetItem(result, Str("image")) IN
    IF ~a.ok THEN a ELSE GetItem(a.v, Str("url"))

api_failed(response) ==
    "API request failed: " \o ToString(response.status_code) \o " " \o response.text

flux_post(image_url, prompt, strength) ==
    Post("/fal-ai/flux/dev/image-to-image",
         [image_url |-> image_url, prompt |-> prompt, strength |-> strength,
          num_inference_steps |-> Integer(28), guidance_scale |-> Float(35)])

\* edit_image_flux reading the URL from the "image" object
edit_image_flux_image_path(image_url, prompt, strength, response) ==
    IF response.kind = "exception" THEN Returned(Failure(response.msg))
    ELSE IF response.status_code = 200
    THEN LET result == response_json(response.text) IN
         IF ~result.ok THEN Returned(Failure(result.exc))
         ELSE LET url == image_url_of(result.v) IN
              IF ~url.ok THEN Returned(Failure(url.exc))
              ELSE Returned(Success(url.v, "FLUX Dev", prompt))
    ELSE Returned(Failure(api_failed(response)))

edit_image_flux(image_url, prompt, strength, response) ==
    IF response.kind = "exception" THEN Returned(Failure(response.msg))
    ELSE IF response.status_code = 200
    THEN LET result == response_json(response.text) IN
         IF ~result.ok THEN Returned(Failure(result.exc))
         ELSE LET url == images_0_url(result.v) IN
              IF ~url.ok THEN Returned(Failure(url.exc))
              ELSE Returned(Success(url.v, "FLUX Dev", prompt))
    ELSE Returned(Failure(api_failed(response)))

qwen_post(image_url, prompt) ==
    Post("/fal-ai/qwen-image-edit", [image_url |-> image_url, prompt |-> prompt])

\* edit_image_qwen without its try/except
edit_image_qwen_unguarded(image_url, prompt, response) ==
    IF response.kind = "exception" THEN Propagated(response.msg)
    ELSE IF response.status_code = 200
    THEN LET result == response_json(response.text) IN
         IF ~result.ok THEN Propagated(result.exc)
         ELSE LET url == image_url_of(result.v) IN
              IF ~url.ok THEN Propagated(url.exc)
              ELSE Returned(Success(url.v, "Qwen Image Edit", prompt))
    ELSE Returned(Failure(api_failed(response)))

edit_image_qwen(image_url, prompt, response) ==
    IF response.kind = "exception" THEN Returned(Failure(response.msg))
    ELSE IF response.status_code = 200
    THEN LET result == response_json(response.text) IN
         IF ~result.ok THEN Returned(Failure(result.exc))
         ELSE LET url == image_url_of(result.v) IN
              IF ~url.ok THEN Returned(Failure(url.exc))
              ELSE Returned(Success(url.v, "Qwen Image Edit", prompt))
    ELSE Returned(Failure(api_failed(response)))

rembg_post(image_url) ==
    Post("/fal-ai/imageutils/rembg", [image_url |-> image_url])

\* remove_background taking every 2xx status for a success
remove_background_any_2xx(image_url, response) ==
    IF response.kind = "exception" THEN Returned(Failure(response.msg))
    ELSE IF response.status_code \div 100 = 2
    THEN LET result == response_json(response.text) IN
         IF ~result.ok THEN Returned(Failure(result.exc))
         ELSE LET url == image_url_of(result.v) IN
              IF ~url.ok THEN Returned(Failure(url.exc))
              ELSE Returned(Success(url.v, "Background Removal",
                                    Str("Remove background")))
    ELSE Returned(Failure(api_failed(response)))

remove_background(image_url, response) ==
    IF response.kind = "exception" THEN Returned(Failure(response.msg))
    ELSE IF response.status_code = 200
    THEN LET result == response_json(response.text) IN
         IF ~result.ok THEN Returned(Failure(result.exc))
         ELSE LET url == image_url_of(result.v) IN
              IF ~url.ok THEN Returned(Failure(url.exc))
              ELSE Returned(Success(url.v, "Background Removal",
                                    Str("Remove background")))
    ELSE Returned(Failure(api_failed(response)))

esrgan_post(image_url, scale) ==
    Post("/fal-ai/esrgan", [image_url |-> image_url, scale |-> scale])

\* upscale_image catching only the transport's exception
upscale_image_unguarded(image_url, scale, response) ==
    IF response.kind = "exception" THEN Returned(Failure(response.msg))
    ELSE IF response.status_code = 200
    THEN LET result == response_json(response.text) IN
         IF ~result.ok THEN Propagated(result.exc)
         ELSE LET url == image_url_of(result.v) IN
              IF ~url.ok THEN Propagated(url.exc)
              ELSE Returned(Success(url.v, "ESRGAN Upscaler",
                                    Str("Upscale " \o PyStr(scale) \o "x")))
    ELSE Returned(Failure(api_failed(response)))

upscale_image(image_url, scale, response) ==
    IF response.kind = "exception" THEN Returned(Failure(response.msg))
    ELSE IF response.status_code = 200
    THEN LET result == response_json(response.text) IN
         IF ~result.ok THEN Returned(Failure(result.exc))
         ELSE LET url == image_url_of(result.v) IN
              IF ~url.ok THEN Returned(Failure(url.exc))
              ELSE Returned(Success(url.v, "ESRGAN Upscaler",
                                    Str("Upscale " \o PyStr(scale) \o "x")))
    ELSE Returned(Failure(api_failed(response)))

----------------------------------------------------------------------------
(* What a handler does when it stops running: it returns a response, it     *)
(* raises, or it awaits a client function.                                  *)

NoBody == Failure("")

CallToolResult(text, isError) ==
    [kind |-> "CallToolResult", isError |-> isError, text |-> text,
     status |-> 0, body |-> NoBody]

\* jsonify(body), status
JsonResponse(body, status) ==
    [kind |-> "json", isError |-> FALSE, text |-> "", status |-> status,
     body |-> body]

\* Flask's answer to an exception a view function lets out
InternalServerError ==
    [kind |-> "html", isError |-> FALSE, text |-> "Internal Server Error",
     status |-> 500, body |-> NoBody]

NoCall == [fn |-> "", image_url |-> Null, prompt |-> Null, opt |-> Null]
NoResponse == CallToolResult("", FALSE)

\* excs: the exceptions raised while the handler ran, caught or not
Return(response) ==
    [kind |-> "return", response |-> response, excs |-> <<>>, call |-> NoCall]
Raise(msg) ==
    [kind |-> "raise", response |-> NoResponse, excs |-> <<msg>>, call |-> NoCall]
Await(fn, image_url, prompt, opt) ==
    [kind |-> "await", response |-> NoResponse, excs |-> <<>>,
     call |-> [fn |-> fn, image_url |-> image_url, prompt |-> prompt, opt |-> opt]]

\* the request a client function posts
ClientPost(c) ==
    CASE c.fn = "edit_image_flux" -> flux_post(c.image_url, c.prompt, c.opt)
      [] c.fn = "edit_image_qwen" -> qwen_post(c.image_url, c.prompt)
      [] c.fn = "remove_background" -> rembg_post(c.image_url)
      [] c.fn = "upscale_image" -> esrgan_post(c.image_url, c.opt)

\* how the awaited client function ends, given what client.post produced
ClientReturn(c, response) ==
    CASE c.fn = "edit_image_flux" ->
           edit_image_flux(c.image_url, c.prompt, c.opt, response)
      [] c.fn = "edit_image_qwen" -> edit_image_qwen(c.image_url, c.prompt, response)
      [] c.fn = "remove_background" -> remove_background(c.image_url, response)
      [] c.fn = "upscale_image" -> upscale_image(c.image_url, c.opt, response)

----------------------------------------------------------------------------
(* Protocol front-end: handle_call_tool *)

CheckMark == "[U+2705]"
CrossMark == "[U+274C]"

ToolNames ==
    {"edit_image_flux", "edit_image_qwen", "remove_background", "upscale_image"}

required_both == CallToolResult("Error: image_url and prompt are required", TRUE)
required_image_url == CallToolResult("Error: image_url is required", TRUE)

\* the unknown-tool result without the name
unknown_tool_unnamed(name) == CallToolResult("Error: Unknown tool", TRUE)

unknown_tool(name) == CallToolResult("Error: Unknown tool '" \o name \o "'", TRUE)

internal_error(msg) == CallToolResult("Internal error: " \o msg, TRUE)

tool_edit_image_flux(arguments) ==
    LET image_url == get(arguments, "image_url", Null)
        prompt == get(arguments, "prompt", Null)
        strength == get(arguments, "strength", Float(8))
    IN  IF ~image_url.ok THEN Raise(image_url.exc)
        ELSE IF ~Truthy(image_url.v) \/ ~Truthy(prompt.v)
        THEN Return(required_both)
        ELSE Await("edit_image_flux", image_url.v, prompt.v, strength.v)

\* the edit_image_qwen branch checking image_url only
tool_edit_image_qwen_url_only(arguments) ==
    LET image_url == get(arguments, "image_url", Null)
        prompt == get(arguments, "prompt", Null)
    IN  IF ~image_url.ok THEN Raise(image_url.exc)
        ELSE IF ~Truthy(image_url.v)
        THEN Return(required_both)
        ELSE Await("edit_image_qwen", image_url.v, prompt.v, Null)

tool_edit_image_qwen(arguments) ==
    LET image_url == get(arguments, "image_url", Null)
        prompt == get(arguments, "prompt", Null)
    IN  IF ~image_url.ok THEN Raise(image_url.exc)
        ELSE IF ~Truthy(image_url.v) \/ ~Truthy(prompt.v)
        THEN Return(required_both)
        ELSE Await("edit_image_qwen", image_url.v, prompt.v, Null)

tool_remove_background(arguments) ==
    LET image_url == get(arguments, "image_url", Null)
    IN  IF ~image_url.ok THEN Raise(image_url.exc)
        ELSE IF ~Truthy(image_url.v)
        THEN Return(required_image_url)
        ELSE Await("remove_background", image_url.v, Null, Null)

tool_upscale_image(arguments) ==
    LET image_url == get(arguments, "image_url", Null)
        scale == get(arguments, "scale", Integer(2))
    IN  IF ~image_url.ok THEN Raise(image_url.exc)
        ELSE IF ~Truthy(image_url.v)
        THEN Return(required_image_url)
        ELSE Await("upscale_image", image_url.v, Null, scale.v)

\* the if/elif chain on name
call_tool_branch(name, arguments) ==
    CASE name = "edit_image_flux" -> tool_edit_image_flux(arguments)
      [] name = "edit_image_qwen" -> tool_edit_image_qwen(arguments)
      [] name = "remove_background" -> tool_remove_background(arguments)
      [] name = "upscale_image" -> tool_upscale_image(arguments)
      [] OTHER -> Return(unknown_tool(name))

\* handle_call_tool without its except clause
call_tool_no_except(step) == step

\* the except clause around the whole body
call_tool_except(step) ==
    IF step.kind = "raise"
    THEN [Return(internal_error(step.excs[1])) EXCEPT !.excs = step.excs]
    ELSE step

\* handle_call_tool, from its call to its return or its await
handle_call_tool(name, arguments) ==
    call_tool_except(call_tool_branch(name, arguments))

\* "Format response"
format_response(result) ==
    IF result.success
    THEN CallToolResult(CheckMark \o " Image edited successfully!\n\n"
                            \o "**Model:** " \o result.model \o "\n"
                            \o "**Prompt:** " \o PyStr(result.prompt) \o "\n"
                            \o "**Result:** " \o PyStr(result.image_url),
                        ~result.success)
    ELSE CallToolResult(CrossMark \o " Error editing image: " \o result.error,
                        ~result.success)

\* handle_call_tool, from the end of the awaited client function to its return
handle_call_tool_resume(ret) ==
    call_tool_except(IF ret.raised THEN Raise(ret.exc)
                     ELSE Return(format_response(ret.value)))

----------------------------------------------------------------------------
(* HTTP front-end: the POST routes of create_http_app *)

Routes == {"/edit/flux", "/edit/qwen", "/remove-bg", "/upscale"}

Body(value) == [raw |-> "json", value |-> value]
AbsentBody == [raw |-> "absent", value |-> Null]
MalformedBody == [raw |-> "malformed", value |-> Null]

\* request.get_json(force=True, silent=True) or {}
get_json_or_empty(body) ==
    LET parsed == IF body.raw = "json" THEN body.value ELSE Null
    IN  IF Truthy(parsed) THEN parsed ELSE Dict(EmptyMap)

bad_request(error) == JsonResponse(Failure(error), 400)

edit_flux(body) ==
    LET data == get_json_or_empty(body)
        image_url == get(data, "image_url", Null)
        prompt == get(data, "prompt", Null)
        strength == pyfloat(get(data, "strength", Float(8)).v)
    IN  IF ~image_url.ok THEN Raise(image_url.exc)
        ELSE IF ~strength.ok THEN Raise(strength.exc)
        ELSE IF ~Truthy(image_url.v) \/ ~Truthy(prompt.v)
        THEN Return(bad_request("image_url and prompt are required"))
        ELSE Await("edit_image_flux", image_url.v, prompt.v, strength.v)

edit_qwen(body) ==
    LET data == get_json_or_empty(body)
        image_url == get(data, "image_url", Null)
        prompt == get(data, "prompt", Null)
    IN  IF ~image_url.ok THEN Raise(image_url.exc)
        ELSE IF ~Truthy(image_url.v) \/ ~Truthy(prompt.v)
        THEN Return(bad_request("image_url and prompt are required"))
        ELSE Await("edit_image_qwen", image_url.v, prompt.v, Null)

remove_bg(body) ==
    LET data == get_json_or_empty(body)
        image_url == get(data, "image_url", Null)
    IN  IF ~image_url.ok THEN Raise(image_url.exc)
        ELSE IF ~Truthy(image_url.v)
        THEN Return(bad_request("image_url is required"))
        ELSE Await("remove_background", image_url.v, Null, Null)

\* the /upscale route with another default scale
upscale_default_4(body) ==
    LET data == get_json_or_empty(body)
        image_url == get(data, "image_url", Null)
        scale == pyint(get(data, "scale", Integer(4)).v)
    IN  IF ~image_url.ok THEN Raise(image_url.exc)
        ELSE IF ~scale.ok THEN Raise(scale.exc)
        ELSE IF ~Truthy(image_url.v)
        THEN Return(bad_request("image_url is required"))
        ELSE Await("upscale_image", image_url.v, Null, scale.v)

upscale(body) ==
    LET data == get_json_or_empty(body)
        image_url == get(data, "image_url", Null)
        scale == pyint(get(data, "scale", Integer(2)).v)
    IN  IF ~image_url.ok THEN Raise(image_url.exc)
        ELSE IF ~scale.ok THEN Raise(scale.exc)
        ELSE IF ~Truthy(image_url.v)
        THEN Return(bad_request("image_url is required"))
        ELSE Await("upscale_image", image_url.v, Null, scale.v)

\* the view function Flask routes the POST to
view(route, body) ==
    CASE route = "/edit/flux" -> edit_flux(body)
      [] route = "/edit/qwen" -> edit_qwen(body)
      [] route = "/remove-bg" -> remove_bg(body)
      [] route = "/upscale" -> upscale(body)

\* a view function, from the end of asyncio.run(...) to its return
view_resume(ret) ==
    IF ret.raised THEN Raise(ret.exc)
    ELSE Return(JsonResponse(ret.value, IF ret.value.success THEN 200 ELSE 500))

----------------------------------------------------------------------------
(* Requests *)

GoodUrl == Str("http://x/img.png")

ImageUrls == {GoodUrl, Str(""), Null}
Prompts == {Str("add hat"), Str("")}
Strengths == {Float(5), Integer(1), Str("0.5"), Str("abc"), Null}
Scales == {Integer(4), Float(25), Str("4"), Str("abc"), Null}

Keys == {"image_url", "prompt", "strength", "scale"}

ValuesOf(k) ==
    CASE k = "image_url" -> ImageUrls
      [] k = "prompt" -> Prompts
      [] k = "strength" -> Strengths
      [] k = "scale" -> Scales

\* every mapping of some of the keys to values
Mappings ==
    UNION { { m \in [K -> ImageUrls \cup Prompts \cup Strengths \cup Scales] :
                \A k \in K : m[k] \in ValuesOf(k) } : K \in SUBSET Keys }

Names == ToolNames \cup {"unknown_tool", "", "edit_image", "EDIT_IMAGE_FLUX"}

\* the arguments handle_call_tool can be called with
Arguments == {Dict(m) : m \in Mappings} \cup {Null}

\* the bodies a POST can carry
Bodies ==
    {Body(Dict(m)) : m \in Mappings}
        \cup {AbsentBody, MalformedBody, Body(Null), Body(List(<<>>)),
              Body(List(<<Integer(1)>>)), Body(Str("image_url"))}

NoRequest == [target |-> "", data |-> Null]

----------------------------------------------------------------------------
(* The server *)

Init ==
    /\ pc = "idle"
    /\ frontend = "none"
    /\ req = NoRequest
    /\ call = NoCall
    /\ sent = <<>>
    /\ vendor = NoOutcome
    /\ results = <<>>
    /\ raised = <<>>
    /\ escaped = FALSE
    /\ responses = <<>>

\* the handler of request r of front-end fe ran up to step
Start(fe, r, step) ==
    /\ frontend' = fe
    /\ req' = r
    /\ raised' = step.excs
    /\ UNCHANGED <<vendor, results>>
    /\ IF step.kind = "await"
       THEN /\ pc' = "awaiting"
            /\ call' = step.call
            /\ sent' = Append(sent, ClientPost(step.call))
            /\ UNCHANGED <<escaped, responses>>
       ELSE /\ pc' = "done"
            /\ escaped' = (step.kind = "raise")
            /\ responses' =
                 IF step.kind = "return" THEN Append(responses, step.response)
                 ELSE IF fe = "http" THEN Append(responses, InternalServerError)
                 ELSE responses
            /\ UNCHANGED <<call, sent>>

\* the awaited client function ended as ret and the handler ran up to step
Finish(outcome, ret, step) ==
    /\ pc' = "done"
    /\ vendor' = outcome
    /\ results' = IF ret.raised THEN results ELSE Append(results, ret.value)
    /\ raised' = raised \o step.excs
    /\ escaped' = (step.kind = "raise")
    /\ responses' =
         IF step.kind = "return" THEN Append(responses, step.response)
         ELSE IF frontend = "http" THEN Append(responses, InternalServerError)
         ELSE responses
    /\ UNCHANGED <<frontend, req, call, sent>>

\* a call-tool request arrives
CallTool ==
    /\ pc = "idle"
    /\ \E name \in Names, arguments \in Arguments :
         Start("mcp", [target |-> name, data |-> arguments],
               handle_call_tool(name, arguments))

\* client.post ends and handle_call_tool runs to its return
CallToolResume ==
    /\ pc = "awaiting"
    /\ frontend = "mcp"
    /\ \E outcome \in VendorOutcomes :
         LET ret == ClientReturn(call, outcome)
         IN  Finish(outcome, ret, handle_call_tool_resume(ret))

\* a POST to one of the four routes arrives
HttpPost ==
    /\ pc = "idle"
    /\ \E route \in Routes, body \in Bodies :
         Start("http", [target |-> route, data |-> body], view(route, body))

\* client.post ends and the view function runs to its return
HttpResume ==
    /\ pc = "awaiting"
    /\ frontend = "http"
    /\ \E outcome \in VendorOutcomes :
         LET ret == ClientReturn(call, outcome)
         IN  Finish(outcome, ret, view_resume(ret))

\* the response is handed to the transport; the server waits for a request
Deliver ==
    /\ pc = "done"
    /\ pc' = "idle"
    /\ frontend' = "none"
    /\ req' = NoRequest
    /\ call' = NoCall
    /\ sent' = <<>>
    /\ vendor' = NoOutcome
    /\ results' = <<>>
    /\ raised' = <<>>
    /\ escaped' = FALSE
    /\ responses' = <<>>

Next == CallTool \/ CallToolResume \/ HttpPost \/ HttpResume \/ Deliver

Spec == Init /\ [][Next]_vars

----------------------------------------------------------------------------
(* handle_call_tool around a client function that may do anything: return  *)
(* any success or failure dict, or raise.                                   *)

AnyClientReturns ==
    {Returned(Success(Str(UrlA), "FLUX Dev", Str("add hat"))),
     Returned(Success(Null, "", Null)),
     Returned(Failure("boom")),
     Returned(Failure("")),
     Propagated("boom"),
     Propagated("")}

\* the awaited client function ends in any way and handle_call_tool resumes
CallToolResumeAny ==
    /\ pc = "awaiting"
    /\ frontend = "mcp"
    /\ \E ret \in AnyClientReturns :
         Finish(NoOutcome, ret, handle_call_tool_resume(ret))

NextAnyClient == Next \/ CallToolResumeAny

SpecAnyClient == Init /\ [][NextAnyClient]_vars

----------------------------------------------------------------------------
(* Vocabulary of the properties *)

\* sub occurs in s
Contains(s, sub) ==
    \E i \in 1..(Len(s) + 1) : \E j \in (i - 1)..Len(s) : SubSeq(s, i, j) = sub

IsMapping(v) == v.t = "dict"

\* the JSON value the request carries: the arguments, or the parsed body
Carried == IF frontend = "http" THEN req.data.value ELSE req.data

Supplied(k) == IsMapping(Carried) /\ k \in DOMAIN Carried.m
Absent(k) == IsMapping(Carried) /\ k \notin DOMAIN Carried.m
Given(k) == Supplied(k) /\ Truthy(Carried.m[k])

EditTargets == {"edit_image_flux", "edit_image_qwen", "/edit/flux", "/edit/qwen"}
FluxTargets == {"edit_image_flux", "/edit/flux"}
UpscaleTargets == {"upscale_image", "/upscale"}

\* the bodies with the field path each client function reads
FluxShaped == {T_flux, T_both}
ImageShaped == {T_image, T_both}
JsonTexts == {T_flux, T_image, T_both, T_empty, T_noimages}

Documented(fn, text) ==
    IF fn = "edit_image_flux" THEN text \in FluxShaped ELSE text \in ImageShaped

\* two Python values compare equal (1 == 1.0)
PyEq(a, b) ==
    IF a.t \in {"int", "float"} /\ b.t \in {"int", "float"}
    THEN (IF a.t = "int" THEN 10 * a.n ELSE a.n) = (IF b.t = "int" THEN 10 * b.n ELSE b.n)
    ELSE a = b

\* the same value, up to its JSON type: equal, or printed alike ("4" and 4)
SameValue(a, b) == PyEq(a, b) \/ PyStr(a) = PyStr(b)

----------------------------------------------------------------------------
(* C1: every request is answered exactly once, with at most one outbound    *)
(* vendor POST; while the POST is pending nothing has been answered, and a  *)
(* request for which a POST was issued is resolved to exactly one Operation *)
(* Result, whatever the vendor call produced.                               *)
C1_OneResultOneResponse ==
    /\ Len(sent) <= 1
    /\ Len(results) <= Len(sent)
    /\ Len(responses) <= 1
    /\ pc = "awaiting" => Len(sent) = 1 /\ results = <<>> /\ responses = <<>>
    /\ pc = "done" => Len(responses) = 1 /\ Len(results) = Len(sent)

C1_Witness ==
    /\ pc = "done"
    /\ frontend = "http"
    /\ vendor.kind = "exception"
    /\ Len(sent) = 1
    /\ Len(results) = 1
    /\ Len(responses) = 1

(* C2: a POST whose body lacks a required field is answered 400 with the    *)
(* route's "... required" error body, and no vendor call is made.           *)
C2_MissingFieldIs400 ==
    (/\ frontend = "http"
     /\ pc = "done"
     /\ \/ ~Supplied("image_url")
        \/ req.target \in EditTargets /\ ~Supplied("prompt"))
    => /\ sent = <<>>
       /\ responses =
            <<JsonResponse(Failure(IF req.target \in EditTargets
                                   THEN "image_url and prompt are required"
                                   ELSE "image_url is required"), 400)>>

(* C3: handle_call_tool, called with a known name and a mapping that lacks  *)
(* a required argument, returns the error result naming the requirement and *)
(* no vendor call has been made.                                            *)
C3_MissingArgumentNoCall ==
    (/\ frontend = "mcp"
     /\ req.target \in ToolNames
     /\ \/ Absent("image_url")
        \/ req.target \in EditTargets /\ Absent("prompt"))
    => /\ pc = "done"
       /\ sent = <<>>
       /\ vendor = NoOutcome
       /\ Len(responses) = 1
       /\ responses[1].kind = "CallToolResult"
       /\ responses[1].isError
       /\ responses[1].text =
            (IF req.target \in EditTargets
             THEN "Error: image_url and prompt are required"
             ELSE "Error: image_url is required")

C3_Witness ==
    /\ frontend = "mcp"
    /\ req.target = "edit_image_qwen"
    /\ Given("image_url")
    /\ Absent("prompt")
    /\ pc = "done"
    /\ responses[1].isError

(* C4: every answer of the four POST routes is JSON carrying a success      *)
(* field, with status 400, 200 or 500; when the required fields are present *)
(* the client function is invoked and the answer is its result, with status *)
(* 200 exactly when success is true and 500 otherwise.                      *)
C4_JsonEnvelope ==
    (frontend = "http" /\ pc = "done")
    => /\ Len(responses) = 1
       /\ responses[1].kind = "json"
       /\ responses[1].status \in {400, 200, 500}
       /\ (Given("image_url") /\ (req.target \in EditTargets => Given("prompt")))
            => /\ Len(sent) = 1
               /\ Len(results) = 1
               /\ responses[1].body = results[1]
               /\ responses[1].status = (IF results[1].success THEN 200 ELSE 500)

(* C5: handle_call_tool always returns a CallToolResult and lets no         *)
(* exception out, whatever the name, the arguments and the behaviour of the *)
(* client function: an exception raised in it gives isError with "Internal  *)
(* error: <message>", a Failure gives isError with the cross-marked error   *)
(* line, a Success gives isError false with model label, prompt and URL.    *)
C5_AlwaysACallToolResult ==
    (frontend = "mcp" /\ pc = "done")
    => /\ ~escaped
       /\ Len(responses) = 1
       /\ responses[1].kind = "CallToolResult"
       /\ raised # <<>> =>
            /\ responses[1].isError
            /\ responses[1].text = "Internal error: " \o raised[1]
       /\ (raised = <<>> /\ results # <<>> /\ ~results[1].success) =>
            /\ responses[1].isError
            /\ responses[1].text =
                 CrossMark \o " Error editing image: " \o results[1].error
       /\ (raised = <<>> /\ results # <<>> /\ results[1].success) =>
            /\ ~responses[1].isError
            /\ Contains(responses[1].text, CheckMark)
            /\ Contains(responses[1].text, "**Model:** " \o results[1].model \o "\n")
            /\ Contains(responses[1].text,
                        "**Prompt:** " \o PyStr(results[1].prompt) \o "\n")
            /\ Contains(responses[1].text,
                        "**Result:** " \o PyStr(results[1].image_url))

C5_Witness ==
    /\ frontend = "mcp"
    /\ pc = "done"
    /\ sent # <<>>
    /\ raised = <<"boom">>
    /\ responses[1].isError
    /\ responses[1].text = "Internal error: boom"

(* C6: a client function returns on every path: a transport exception, a    *)
(* 200 answer that is not JSON and a 200 answer without the expected field  *)
(* path each give the Failure result carrying the exception's message.      *)
C6_ClientNeverRaises ==
    (pc = "done" /\ sent # <<>>)
    => /\ ~escaped
       /\ raised = <<>>
       /\ Len(results) = 1
       /\ vendor.kind = "exception" => results[1] = Failure(vendor.msg)
       /\ (vendor.kind = "response" /\ vendor.status_code = 200
             /\ vendor.text \notin JsonTexts)
            => results[1] = Failure("Expecting value: line 1 column 1 (char 0)")
       /\ (vendor.kind = "response" /\ vendor.status_code = 200
             /\ vendor.text \in JsonTexts /\ ~Documented(call.fn, vendor.text))
            => /\ ~results[1].success
               /\ results[1].error \in
                    {"'images'", "'image'", "list index out of range",
                     "'NoneType' object is not subscriptable"}

C6_Witness ==
    /\ pc = "done"
    /\ call.fn = "upscale_image"
    /\ vendor = Response(200, T_empty)
    /\ results = <<Failure("'image'")>>

(* C7: a vendor answer whose status is not 200, other 2xx codes included,   *)
(* gives a Failure whose message contains the status code and the raw body. *)
C7_Non200IsFailure ==
    (pc = "done" /\ sent # <<>> /\ vendor.kind = "response"
       /\ vendor.status_code # 200)
    => /\ Len(results) = 1
       /\ ~results[1].success
       /\ Contains(results[1].error, ToString(vendor.status_code))
       /\ Contains(results[1].error, vendor.text)

C7_Witness ==
    /\ pc = "done"
    /\ call.fn = "remove_background"
    /\ vendor = Response(201, T_image)
    /\ ~results[1].success

(* C8: a 200 answer of the documented shape gives a Success whose image_url *)
(* is the vendor's URL unchanged (images[0].url for edit_image_flux,        *)
(* image.url for the others), with the fixed model label and the caller's   *)
(* prompt, or "Remove background" / "Upscale {scale}x".                     *)
C8_SuccessCarriesVendorUrl ==
    (pc = "done" /\ sent # <<>> /\ vendor.kind = "response"
       /\ vendor.status_code = 200 /\ Documented(call.fn, vendor.text))
    => results =
         << CASE call.fn = "edit_image_flux" ->
                   Success(Str(UrlA), "FLUX Dev", Carried.m["prompt"])
              [] call.fn = "edit_image_qwen" ->
                   Success(Str(UrlB), "Qwen Image Edit", Carried.m["prompt"])
              [] call.fn = "remove_background" ->
                   Success(Str(UrlB), "Background Removal", Str("Remove background"))
              [] call.fn = "upscale_image" ->
                   Success(Str(UrlB), "ESRGAN Upscaler",
                           Str("Upscale " \o PyStr(sent[1].json.scale) \o "x")) >>

C8_Witness ==
    /\ pc = "done"
    /\ call.fn = "edit_image_flux"
    /\ vendor = Response(200, T_both)
    /\ results[1].success
    /\ results[1].image_url = Str(UrlA)

(* C9: when the required arguments are present, an optional argument that  *)
(* is not supplied is sent with its declared default (strength 0.8, scale   *)
(* 2), and one that is supplied is sent as supplied.                        *)
C9_SuppliedValueIsSent ==
    sent # <<>>
    => /\ req.target \in FluxTargets =>
            SameValue(sent[1].json.strength,
                 IF Supplied("strength") THEN Carried.m["strength"] ELSE Float(8))
       /\ req.target \in UpscaleTargets =>
            SameValue(sent[1].json.scale,
                 IF Supplied("scale") THEN Carried.m["scale"] ELSE Integer(2))

(* C9, amended: when the required arguments are present, an optional        *)
(* argument that is not supplied is passed to the client function and sent  *)
(* with its declared default (strength 0.8, scale 2).  A supplied one is    *)
(* passed and sent unchanged by the protocol front-end; the HTTP front-end  *)
(* passes and sends float(strength) and int(scale) of it (a fractional      *)
(* scale truncated, a numeric string parsed) and calls no client function   *)
(* when that conversion raises.                                             *)
C9_DefaultOrConverted ==
    /\ sent # <<>> =>
         /\ req.target \in FluxTargets =>
              /\ sent[1].json.strength = call.opt
              /\ Absent("strength") => call.opt = Float(8)
              /\ (Supplied("strength") /\ frontend = "mcp")
                   => call.opt = Carried.m["strength"]
              /\ (Supplied("strength") /\ frontend = "http")
                   => /\ call.opt.t = "float"
                      /\ Carried.m["strength"].t \in {"int", "float", "str"}
                      /\ Carried.m["strength"].t \in {"int", "float"}
                           => PyEq(call.opt, Carried.m["strength"])
                      /\ Carried.m["strength"].t = "str"
                           => PyStr(call.opt) = Carried.m["strength"].s
         /\ req.target \in UpscaleTargets =>
              /\ sent[1].json.scale = call.opt
              /\ Absent("scale") => call.opt = Integer(2)
              /\ (Supplied("scale") /\ frontend = "mcp")
                   => call.opt = Carried.m["scale"]
              /\ (Supplied("scale") /\ frontend = "http")
                   => /\ call.opt.t = "int"
                      /\ Carried.m["scale"].t \in {"int", "float", "str"}
                      /\ Carried.m["scale"].t = "int"
                           => call.opt = Carried.m["scale"]
                      /\ Carried.m["scale"].t = "float"
                           => /\ 10 * call.opt.n <= Carried.m["scale"].n
                              /\ Carried.m["scale"].n < 10 * call.opt.n + 10
                      /\ Carried.m["scale"].t = "str"
                           => PyStr(call.opt) = Carried.m["scale"].s
    /\ (/\ pc # "idle"
        /\ req.target \in FluxTargets \cup UpscaleTargets
        /\ Given("image_url")
        /\ req.target \in FluxTargets => Given("prompt")
        /\ \/ frontend = "mcp"
           \/ req.target \in FluxTargets /\ Absent("strength")
           \/ req.target \in UpscaleTargets /\ Absent("scale"))
       => Len(sent) = 1

C9_Witness ==
    /\ pc = "awaiting"
    /\ frontend = "http"
    /\ req.target = "/upscale"
    /\ Absent("scale")
    /\ call.opt = Integer(2)
    /\ sent[1].json.scale = Integer(2)

(* C10: handle_call_tool, called with a name that is none of the four       *)
(* operation names, returns for every arguments value an error result whose *)
(* text contains "Unknown tool '<name>'", and no vendor call is made.       *)
C10_UnknownToolNamed ==
    (frontend = "mcp" /\ req.target \notin ToolNames)
    => /\ pc = "done"
       /\ sent = <<>>
       /\ vendor = NoOutcome
       /\ Len(responses) = 1
       /\ responses[1].kind = "CallToolResult"
       /\ responses[1].isError
       /\ Contains(responses[1].text, "Unknown tool '" \o req.target \o "'")

C10_Witness ==
    /\ frontend = "mcp"
    /\ req.target = "edit_image"
    /\ IsMapping(req.data)
    /\ Given("image_url")
    /\ pc = "done"
    /\ responses[1].isError

====
